---- MODULE Spec2Model ----
(***************************************************************************)
(* Browser-side views of the genome designer: the admin connection-test    *)
(* form (CeleryManager.HomeView), the reference-genome download form       *)
(* (gd.RefGenomeView.handleDownload), the table component                  *)
(* (gd.DataTableComponent) and the list views that own one.                *)
(*                                                                         *)
(* JavaScript runs every handler to completion on one event loop: an       *)
(* action below is one handler, and a callback of an asynchronous request  *)
(* is a separate action enabled only when no handler is on the stack.      *)
(***************************************************************************)
EXTENDS Integers, Sequences, FiniteSets, TLC

VARIABLES
  \* ---- admin connection-test form (CeleryManager.HomeView) ----
  panel,        \* fieldset -> set of CSS classes of the enclosing .panel
  blocked,      \* fieldset -> whether blockUI currently covers the fieldset
  ajax,         \* fieldset -> "none" | "sent": the POST of test() in flight
  alerts,       \* the messages passed to alert(), in order
  lastStatus,   \* fieldset -> "none" | data.status of the last response handled
  lastEnd,      \* fieldset -> "none" | "response" | "netfail": how the last POST ended
  \* ---- reference-genome download form (gd.RefGenomeView) ----
  form,         \* children of #gd-download-form: a sequence of hidden inputs
  submitted,    \* the forms handed to submit(), in order (snapshots)
  dlCalls,      \* the handleDownload calls made: <<file_format, threw>>
  modelUid,     \* this.model.get('uid')
  globalUid,    \* the binding of the free identifier reference_genome_uid
  \* ---- gd.DataTableComponent and the views that own one ----
  components,   \* every DataTableComponent constructed so far, in order
  page,         \* the hook element's children, and counts of what was done to it
  gets,         \* every $.get issued so far: target, query, owner, pending or not
  view,         \* the owning view: kind, position in its handler, show_de_novo, listeners
  hist          \* what the callers did last (arguments of update, response handled)

adminVars == <<panel, blocked, ajax, alerts, lastStatus, lastEnd>>
downloadVars == <<form, submitted, dlCalls, modelUid, globalUid>>
tableVars == <<components, page, gets, view, hist>>
vars == <<adminVars, downloadVars, tableVars>>

(***************************************************************************)
(* Bounds                                                                  *)
(***************************************************************************)
NumFieldsets == 2
MaxRequests == 3
MaxDownloads == 3
MaxPriorFields == 2
MaxRows == 2
MaxCols == 2
MaxUpdates == 2
MaxRedraws == 3

Last(s) == s[Len(s)]

(***************************************************************************)
(* CeleryManager.HomeView: the connection-test handler                     *)
(***************************************************************************)
Fieldsets == 1..NumFieldsets
PanelClasses == {"panel-success", "panel-danger"}
\* data.status of a response; only the exact string "error" is the error case
Statuses == {"error", "ok", "Error", "failed"}
Messages == {"bad host"}

\* jQuery removeClass / addClass on the class set of the panel
removeClass(classes, c) == classes \ {c}
addClass(classes, c) == classes \cup {c}

\* A success that adds panel-success and leaves panel-danger in place
successAlt(f, message) ==
  /\ alerts' = Append(alerts, message)
  /\ panel' = [panel EXCEPT ![f] = addClass(@, "panel-success")]

\* success: (fieldset, message) => alert; panel-danger off, panel-success on
success(f, message) ==
  /\ alerts' = Append(alerts, message)
  /\ panel' = [panel EXCEPT ![f] =
                 addClass(removeClass(@, "panel-danger"), "panel-success")]

\* error: (fieldset, message) => alert; panel-success off, panel-danger on
error(f, message) ==
  /\ alerts' = Append(alerts, message)
  /\ panel' = [panel EXCEPT ![f] =
                 addClass(removeClass(@, "panel-success"), "panel-danger")]

\* A complete that leaves the fieldset blocked
completeAlt(f) ==
  /\ blocked' = blocked
  /\ ajax' = [ajax EXCEPT ![f] = "none"]

\* complete: -> fieldset.unblock().spin false
complete(f) ==
  /\ blocked' = [blocked EXCEPT ![f] = FALSE]
  /\ ajax' = [ajax EXCEPT ![f] = "none"]

\* test: (e) => the click handler. The button is inside the fieldset, and
\* a blocked fieldset takes no mouse or key event (blockUI), so the handler
\* runs only on an unblocked fieldset. beforeSend blocks it, then the POST
\* is in flight.
test(f) ==
  /\ ~blocked[f]
  /\ Len(alerts) < MaxRequests
  /\ ajax' = [ajax EXCEPT ![f] = "sent"]
  /\ blocked' = [blocked EXCEPT ![f] = TRUE]
  /\ UNCHANGED <<panel, alerts, lastStatus, lastEnd>>

\* The POST answered: jQuery runs success(data), then complete.
ajaxSuccess(f, status, message) ==
  /\ ajax[f] = "sent"
  /\ IF status = "error"
       THEN error(f, message)
       ELSE success(f, "Passed test!")
  /\ complete(f)
  /\ lastStatus' = [lastStatus EXCEPT ![f] = status]
  /\ lastEnd' = [lastEnd EXCEPT ![f] = "response"]

\* The POST failed at the network level: no error callback is given to
\* $.ajax, so jQuery runs complete alone.
ajaxFail(f) ==
  /\ ajax[f] = "sent"
  /\ complete(f)
  /\ lastEnd' = [lastEnd EXCEPT ![f] = "netfail"]
  /\ UNCHANGED <<panel, alerts, lastStatus>>

AdminInit ==
  /\ panel \in [Fieldsets -> SUBSET PanelClasses]
  /\ blocked = [f \in Fieldsets |-> FALSE]
  /\ ajax = [f \in Fieldsets |-> "none"]
  /\ alerts = <<>>
  /\ lastStatus = [f \in Fieldsets |-> "none"]
  /\ lastEnd = [f \in Fieldsets |-> "none"]

AdminIdle ==
  /\ panel = [f \in Fieldsets |-> {}]
  /\ blocked = [f \in Fieldsets |-> FALSE]
  /\ ajax = [f \in Fieldsets |-> "none"]
  /\ alerts = <<>>
  /\ lastStatus = [f \in Fieldsets |-> "none"]
  /\ lastEnd = [f \in Fieldsets |-> "none"]

Click == \E f \in Fieldsets : test(f)
Respond == \E f \in Fieldsets, s \in Statuses, m \in Messages : ajaxSuccess(f, s, m)
NetworkFail == \E f \in Fieldsets : ajaxFail(f)

AdminNext ==
  \/ Click /\ UNCHANGED <<downloadVars, tableVars>>
  \/ Respond /\ UNCHANGED <<downloadVars, tableVars>>
  \/ NetworkFail /\ UNCHANGED <<downloadVars, tableVars>>

\* C5: once a test response has been handled for a fieldset, its panel
\* carries panel-danger and not panel-success when the latest response had
\* status "error", and panel-success and not panel-danger for every other
\* status; it never carries both classes, whatever it carried before.
C5_PanelReflectsLatestResponse ==
  \A f \in Fieldsets :
    lastStatus[f] # "none" =>
      panel[f] \cap PanelClasses =
        (IF lastStatus[f] = "error" THEN {"panel-danger"} ELSE {"panel-success"})

\* An error answer after an earlier answer on one fieldset, a non-"error"
\* status (a different spelling) on the other.
C5_Witness ==
  /\ lastStatus[1] = "error"
  /\ lastStatus[2] = "Error"
  /\ Len(alerts) = MaxRequests

Uids == {"u1", "u2"}
Undefined == "undefined"
FileFormats == {"fasta", "genbank"}

\* _appendInputFieldToForm: one hidden input, appended to the form
HiddenInput(name, value) == [name |-> name, value |-> value]
appendInputFieldToForm(formObj, name, value) ==
  Append(formObj, HiddenInput(name, value))

\* formJqueryObj.empty()
empty(formObj) == <<>>

\* handleDownload: reset the form, append file_format, then append
\* reference_genome_uid with the value of the free identifier
\* reference_genome_uid. Evaluating an unbound identifier throws a
\* ReferenceError: the handler ends there, before submit().
handleDownload(file_format) ==
  /\ Len(dlCalls) < MaxDownloads
  /\ LET f0 == empty(form)
         f1 == appendInputFieldToForm(f0, "file_format", file_format)
     IN IF globalUid = Undefined
          THEN /\ form' = f1
               /\ submitted' = submitted
               /\ dlCalls' = Append(dlCalls, <<file_format, TRUE>>)
          ELSE LET f2 == appendInputFieldToForm(f1, "reference_genome_uid", globalUid)
               IN /\ form' = f2
                  /\ submitted' = Append(submitted, f2)
                  /\ dlCalls' = Append(dlCalls, <<file_format, FALSE>>)
  /\ UNCHANGED <<modelUid, globalUid>>

PriorInputs == {HiddenInput("file_format", "genbank"),
                HiddenInput("reference_genome_uid", "u2")}
PriorForms == UNION {[1..n -> PriorInputs] : n \in 0..MaxPriorFields}

DownloadInit ==
  /\ form \in PriorForms
  /\ submitted = <<>>
  /\ dlCalls = <<>>
  /\ modelUid \in Uids
  /\ globalUid \in Uids \cup {Undefined}

DownloadIdle ==
  /\ form = <<>>
  /\ submitted = <<>>
  /\ dlCalls = <<>>
  /\ modelUid = "u1"
  /\ globalUid = Undefined

Download == \E ff \in FileFormats : handleDownload(ff)

DownloadNext == Download /\ UNCHANGED <<adminVars, tableVars>>

\* C2: every handleDownload(f) submits the form with exactly the two hidden
\* fields file_format = f and reference_genome_uid = the uid of the model.
C2_SubmitsFormatAndModelUid ==
  dlCalls # <<>> =>
    /\ Len(submitted) = Len(dlCalls)
    /\ Last(submitted) =
         << HiddenInput("file_format", Last(dlCalls)[1]),
            HiddenInput("reference_genome_uid", modelUid) >>

(***************************************************************************)
(* gd.DataTableComponent                                                   *)
(***************************************************************************)
Rows == {"r1", "r2"}
ColNames == << "name", "uid", "status", "size" >>

\* lists of distinct elements of S, at most n long
Injective(s) == \A i, j \in DOMAIN s : i # j => s[i] # s[j]
ListsOf(S, n) == {s \in UNION {[1..k -> S] : k \in 0..n} : Injective(s)}

\* obj_list and field_config as the server (or a direct caller) gives them
ObjLists == ListsOf(Rows, MaxRows)
FieldConfigs == {SubSeq(ColNames, 1, k) : k \in 0..MaxCols}
Responses == [obj_list : ObjLists, field_config : FieldConfigs]

\* _.extend(a, b): the keys of b are copied over a
extend(a, b) == [k \in DOMAIN a \cup DOMAIN b |->
                   IF k \in DOMAIN b THEN b[k] ELSE a[k]]

\* makeDisplayableObjectList / makeDisplayableFieldConfig (of the abstract
\* base component): each row and each column entry becomes its displayable
\* form, one for one and in order.
DisplayableObj(obj) == [display |-> obj]
DisplayableField(col) == [mData |-> col, sTitle |-> col]
makeDisplayableObjectList(objList) ==
  [i \in DOMAIN objList |-> DisplayableObj(objList[i])]
makeDisplayableFieldConfig(fieldConfig) ==
  [i \in DOMAIN fieldConfig |-> DisplayableField(fieldConfig[i])]

\* getDataTableParams (of the abstract base component): the base parameter
\* set of the table widget
getDataTableParams == [sDom |-> "base"]

\* A table element of the hook: its id, which element it is (gen counts
\* the table elements written into the hook), and the parameters of the
\* widget instantiated on it (none yet: <<>>).
TableElement(id, gen) == [id |-> id, gen |-> gen, widget |-> <<>>]

\* this.datatable.fnClearTable(): the rows of that widget are removed
fnClearTable(pg, handle) ==
  [pg EXCEPT
     !.hook = [i \in DOMAIN pg.hook |->
                 IF pg.hook[i].gen = handle.gen /\ pg.hook[i].widget # <<>>
                   THEN [pg.hook[i] EXCEPT
                           !.widget = << extend(pg.hook[i].widget[1],
                                                [aaData |-> <<>>]) >>]
                   ELSE pg.hook[i]],
     !.cleared = @ + 1]

\* The table element appended to the hook's children instead of replacing
\* them
htmlAlt(pg, id) ==
  [pg EXCEPT !.hook = Append(@, TableElement(id, pg.written + 1)),
             !.written = @ + 1]

\* this.$el.html('<table ... id=...></table>'): the children of the hook are
\* replaced by one new table element
html(pg, id) ==
  [pg EXCEPT !.hook = << TableElement(id, pg.written + 1) >>,
             !.written = @ + 1]

\* $('#' + id): the first element of the hook with that id (0: none)
ById(pg, id) ==
  IF \E i \in DOMAIN pg.hook : pg.hook[i].id = id
    THEN CHOOSE i \in DOMAIN pg.hook :
           /\ pg.hook[i].id = id
           /\ \A j \in DOMAIN pg.hook : pg.hook[j].id = id => i <= j
    ELSE 0

\* $('#' + id).dataTable(params): the widget is instantiated on the element
dataTable(pg, id, params) ==
  LET i == ById(pg, id)
  IN IF i = 0 THEN pg
     ELSE [pg EXCEPT !.hook[i].widget = << params >>]

\* A parameter set with the rows passed as the columns too, and without
\* the caller's extraDatatableParams
datatableParamsAlt(c, objList, fieldConfig) ==
  extend(getDataTableParams, [aaData |-> objList, aoColumns |-> objList])

\* The parameter set handed to the widget: the base set, then aaData and
\* aoColumns, then the caller's extraDatatableParams over both.
datatableParams(c, objList, fieldConfig) ==
  LET p0 == getDataTableParams
      p1 == extend(p0, [aaData |-> objList, aoColumns |-> fieldConfig])
  IN IF c.options.extraDatatableParams # <<>>
       THEN extend(p1, c.options.extraDatatableParams[1])
       ELSE p1

\* An updateDatatable that writes the table element only when no table
\* exists yet (an else branch)
updateDatatableAlt(c, pg, objList, fieldConfig) ==
  LET id == c.el \o "-datatable"
      p1 == IF c.datatable # <<>>
              THEN [fnClearTable(pg, c.datatable[1]) EXCEPT !.calls = @ + 1]
              ELSE [html(pg, id) EXCEPT !.calls = @ + 1]
      p2 == dataTable(p1, id, datatableParams(c, objList, fieldConfig))
      i == ById(p2, id)
  IN [c |-> [c EXCEPT !.datatableId = id,
                      !.datatable = IF i = 0 THEN <<>> ELSE << [gen |-> p2.hook[i].gen] >>],
      page |-> p2]

\* updateDatatable: clear the existing widget if there is one; write the
\* table element into the hook; instantiate the widget on it.
updateDatatable(c, pg, objList, fieldConfig) ==
  LET p0 == IF c.datatable # <<>> THEN fnClearTable(pg, c.datatable[1]) ELSE pg
      id == c.el \o "-datatable"
      p1 == [html(p0, id) EXCEPT !.calls = @ + 1]
      p2 == dataTable(p1, id, datatableParams(c, objList, fieldConfig))
      i == ById(p2, id)
  IN [c |-> [c EXCEPT !.datatableId = id,
                      !.datatable = IF i = 0 THEN <<>> ELSE << [gen |-> p2.hook[i].gen] >>],
      page |-> p2]

\* A $.get: target, query parameters, the component whose callback it
\* carries, what it fetches, and whether its callback is still to run.
Get(url, data, comp, kind) ==
  [url |-> url, data |-> data, comp |-> comp, kind |-> kind, pending |-> TRUE]

\* addControlsFromTemplate (of the abstract base component): requests the
\* controls fragment; its callback injects it and emits DONE_CONTROLS_REDRAW.
addControlsFromTemplate(c, i) ==
  << Get(c.options.controlsTemplate[1], c.options.requestData, i, "template") >>

\* render of component number i: draw the table, then ask for the controls
\* if a template was supplied. The result: the component, the page and the
\* requests issued.
render(c, pg, i) ==
  LET u == updateDatatable(c, pg, c.displayableObjList, c.displayableFieldConfig)
  IN [c |-> u.c,
      page |-> [u.page EXCEPT !.renders = @ + 1],
      gets |-> IF c.options.controlsTemplate # <<>>
                 THEN addControlsFromTemplate(c, i)
                 ELSE <<>>]

\* An initializeFromServerTarget that also renders at once, before the
\* response
initializeFromServerTargetAlt(c, pg, i) ==
  LET r == render(c, pg, i)
  IN [c |-> r.c, page |-> r.page,
      gets |-> << Get(c.options.serverTarget[1], c.options.requestData, i, "data") >>
                 \o r.gets]

\* initializeFromServerTarget: one $.get of the server target with
\* requestData; nothing else until its callback runs.
initializeFromServerTarget(c, pg, i) ==
  [c |-> c, page |-> pg,
   gets |-> << Get(c.options.serverTarget[1], c.options.requestData, i, "data") >>]

\* The options a caller passes. An option not passed is <<>>, one passed is
\* << value >>.
Options(el, serverTarget, controlsTemplate, requestData, extra, objList, fieldConfig) ==
  [el |-> el, serverTarget |-> serverTarget, controlsTemplate |-> controlsTemplate,
   requestData |-> requestData, extraDatatableParams |-> extra,
   objList |-> objList, fieldConfig |-> fieldConfig]

\* initialize: new gd.DataTableComponent(options), as component number i
initialize(options, pg, i) ==
  LET c0 == [options |-> options, el |-> options.el, datatable |-> <<>>,
             datatableId |-> "", displayableObjList |-> <<>>,
             displayableFieldConfig |-> <<>>, destroyed |-> FALSE]
  IN IF options.serverTarget # <<>>
       THEN initializeFromServerTarget(c0, pg, i)
       ELSE render([c0 EXCEPT
                      !.displayableObjList = makeDisplayableObjectList(options.objList),
                      !.displayableFieldConfig = makeDisplayableFieldConfig(options.fieldConfig)],
                   pg, i)

\* update(newObjList, newFieldConfig)
update(c, pg, i, newObjList, newFieldConfig) ==
  render([c EXCEPT
            !.displayableObjList = makeDisplayableObjectList(newObjList),
            !.displayableFieldConfig = makeDisplayableFieldConfig(newFieldConfig)],
         pg, i)

\* A fetch callback that ignores the response of a destroyed component
fetchCallbackAlt(c, pg, i, response) ==
  IF c.destroyed
    THEN [c |-> c, page |-> pg, gets |-> <<>>]
    ELSE render([c EXCEPT
                   !.options.objList = response.obj_list,
                   !.options.fieldConfig = response.field_config,
                   !.displayableObjList = makeDisplayableObjectList(response.obj_list),
                   !.displayableFieldConfig = makeDisplayableFieldConfig(response.field_config)],
                pg, i)

\* The callback of the data fetch of component number i: it has no guard
fetchCallback(c, pg, i, response) ==
  render([c EXCEPT
            !.options.objList = response.obj_list,
            !.options.fieldConfig = response.field_config,
            !.displayableObjList = makeDisplayableObjectList(response.obj_list),
            !.displayableFieldConfig = makeDisplayableFieldConfig(response.field_config)],
         pg, i)

\* destroy (of the abstract base component): the table widget is torn down
\* and its element leaves the hook; a fetch in flight is not cancelled.
destroy(c, pg) ==
  [c |-> [c EXCEPT !.datatable = <<>>, !.destroyed = TRUE],
   page |-> IF c.datatable = <<>> THEN pg
            ELSE [pg EXCEPT !.hook = SelectSeq(@, LAMBDA e : e.gen # c.datatable[1].gen)]]

\* What the hook shows: its table elements, and the rows and columns of
\* the widgets on them
ShownRows(pg) ==
  IF pg.hook # <<>> /\ Last(pg.hook).widget # <<>>
    THEN Last(pg.hook).widget[1].aaData ELSE <<>>
ShownCols(pg) ==
  IF pg.hook # <<>> /\ Last(pg.hook).widget # <<>>
    THEN Last(pg.hook).widget[1].aoColumns ELSE <<>>

(***************************************************************************)
(* The event loop                                                          *)
(***************************************************************************)
\* A callback of $.get runs only when no handler is on the stack: the
\* view's render / redrawDatatable has returned.
CallStackEmpty == view.pc = "idle"

\* A callback that may run while a handler is still on the stack (a
\* synchronous request)
fetchCallbackEnabledAlt(g) ==
  /\ gets[g].pending
  /\ gets[g].kind = "data"

\* The callback of data fetch g can run: the fetch is unanswered and the
\* stack is empty
fetchCallbackEnabled(g) ==
  /\ gets[g].pending
  /\ gets[g].kind = "data"
  /\ CallStackEmpty

(***************************************************************************)
(* A DataTableComponent constructed and updated by a direct caller         *)
(***************************************************************************)
HookId == "gd-datatable-hook"
NoView == [kind |-> "none", pc |-> "idle", show_de_novo |-> FALSE,
           current |-> 0, listening |-> {}, controls |-> 0, redraws |-> 0]
NoPage == [hook |-> <<>>, written |-> 0, cleared |-> 0, calls |-> 0,
           renders |-> 0, injected |-> 0]
NoHist == [lastResponse |-> <<>>, lastUpdate |-> <<>>, lastRenderBy |-> "none",
           updates |-> 0, responses |-> 0, lastDelivered |-> 0, missed |-> 0,
           early |-> 0, toggles |-> 0]

\* extraDatatableParams a caller may pass: none, a widget setting, or the
\* widget's data and column keys themselves
ExtraChoices ==
  { <<>>,
    << [sDom |-> "custom"] >>,
    << [aaData |-> << DisplayableObj("r9") >>] >>,
    << [aoColumns |-> <<>>] >> }

\* The options of a direct caller: a server target or direct data; a
\* controls template or extraDatatableParams.
CallerOptions ==
  { Options(HookId, st, x[1], [projectUid |-> "u1"], x[2], ol, << "name" >>) :
      st \in {<<>>, << "/_/samples" >>},
      x \in ({<<>>} \X ExtraChoices)
               \cup {<< << "/_/templates/sample_list_controls" >>, <<>> >>},
      ol \in ObjLists }

\* new gd.DataTableComponent(options) by a direct caller
Construct(options) ==
  /\ view.kind = "none"
  /\ components = <<>>
  /\ options.serverTarget # <<>> => options.objList = <<>>
  /\ LET r == initialize(options, page, 1)
     IN /\ components' = << r.c >>
        /\ page' = r.page
        /\ gets' = gets \o r.gets
        /\ hist' = [hist EXCEPT !.lastRenderBy =
                      IF options.serverTarget # <<>> THEN "none" ELSE "construct"]
  /\ UNCHANGED view

\* component.update(newObjList, newFieldConfig) by a caller holding it
Update(i, newObjList, newFieldConfig) ==
  /\ view.kind = "none"
  /\ i \in DOMAIN components
  /\ CallStackEmpty
  /\ hist.updates < MaxUpdates
  /\ LET r == update(components[i], page, i, newObjList, newFieldConfig)
     IN /\ components' = [components EXCEPT ![i] = r.c]
        /\ page' = r.page
        /\ gets' = gets \o r.gets
  /\ hist' = [hist EXCEPT
                !.lastUpdate = << [objList |-> newObjList, fieldConfig |-> newFieldConfig] >>,
                !.lastRenderBy = "update",
                !.updates = @ + 1]
  /\ UNCHANGED view

\* The data fetch numbered g is answered: its callback runs.
FetchCallback(g, response) ==
  /\ g \in DOMAIN gets
  /\ fetchCallbackEnabled(g)
  /\ LET i == gets[g].comp
         r == fetchCallback(components[i], page, i, response)
     IN /\ components' = [components EXCEPT ![i] = r.c]
        /\ page' = r.page
        /\ gets' = [gets EXCEPT ![g].pending = FALSE] \o r.gets
        /\ hist' = [hist EXCEPT
                      !.lastResponse = << response >>,
                      !.lastRenderBy = "response",
                      !.responses = @ + 1,
                      !.lastDelivered = g,
                      !.early = IF view.kind \in {"SampleListView", "RefGenomeListView"}
                                   /\ i \notin view.listening
                                  THEN @ + 1 ELSE @]
  /\ UNCHANGED view

\* The template fetch numbered g is answered: the callback of
\* addControlsFromTemplate injects the fragment and emits
\* DONE_CONTROLS_REDRAW on its component; a view listening to that
\* component runs decorateControls, which constructs a controls component
\* (and, in RefGenomeListView, listens to its MODELS_UPDATED and
\* TOGGLE_DE_NOVO).
TemplateCallback(g) ==
  /\ g \in DOMAIN gets
  /\ gets[g].pending
  /\ gets[g].kind = "template"
  /\ CallStackEmpty
  /\ gets' = [gets EXCEPT ![g].pending = FALSE]
  /\ page' = [page EXCEPT !.injected = @ + 1]
  /\ IF gets[g].comp \in view.listening
       THEN /\ view' = [view EXCEPT !.controls = @ + 1]
            /\ hist' = hist
       ELSE /\ view' = view
            /\ hist' = [hist EXCEPT !.missed =
                          IF view.kind \in {"SampleListView", "RefGenomeListView"}
                            THEN @ + 1 ELSE @]
  /\ UNCHANGED components

(***************************************************************************)
(* The views: gd.SampleListView, gd.RefGenomeView, gd.RefGenomeListView    *)
(* (the RefGenomeListView of ref_genome_list_view.js)                      *)
(***************************************************************************)
ViewKinds == {"SampleListView", "RefGenomeView", "RefGenomeListView"}

sampleListOptions(uid) ==
  Options("gd-sample-list-view-datatable-hook", << "/_/samples" >>,
          << "/_/templates/sample_list_controls" >>,
          [projectUid |-> uid], <<>>, <<>>, <<>>)

refGenomeViewOptions(uid) ==
  Options("gd-ref-genome-view-datatable-hook", << "/_/single_ref_genome" >>,
          <<>>, [referenceGenomeUid |-> uid], <<>>, <<>>, <<>>)

\* requestData of RefGenomeListView.redrawDatatable
refGenomeListRequestData(uid, show_de_novo) ==
  [projectUid |-> uid, show_de_novo |-> IF show_de_novo THEN 1 ELSE 0]

refGenomeListOptions(uid, show_de_novo) ==
  Options("gd-ref-genome-list-view-datatable-hook", << "/_/ref_genomes" >>,
          << "/_/templates/reference_genome_list_controls" >>,
          refGenomeListRequestData(uid, show_de_novo), <<>>, <<>>, <<>>)

\* What the server answers to a data fetch: the de-novo genomes are left
\* out when show_de_novo is 0.
ServerData(get) ==
  IF "show_de_novo" \in DOMAIN get.data /\ get.data.show_de_novo = 0
    THEN [obj_list |-> << "r1" >>, field_config |-> << "name" >>]
    ELSE [obj_list |-> << "r1", "r2" >>, field_config |-> << "name" >>]

\* redrawDatatable up to and including the construction of the new
\* component: the current component, if any, is destroyed first.
redrawDatatable(options) ==
  LET cur == view.current
      comps1 == IF cur # 0
                  THEN [components EXCEPT ![cur] = destroy(components[cur], page).c]
                  ELSE components
      pg1 == IF cur # 0 THEN destroy(components[cur], page).page ELSE page
      i == Len(components) + 1
      r == initialize(options, pg1, i)
  IN /\ components' = Append(comps1, r.c)
     /\ page' = r.page
     /\ gets' = gets \o r.gets

\* SampleListView.initialize -> render, up to the construction of the
\* component; listenTo is the next step of the same handler.
SampleListViewRender ==
  /\ view.kind = "SampleListView"
  /\ view.pc = "new"
  /\ LET r == initialize(sampleListOptions(modelUid), page, 1)
     IN /\ components' = << r.c >>
        /\ page' = r.page
        /\ gets' = gets \o r.gets
  /\ view' = [view EXCEPT !.pc = "listen", !.current = 1]
  /\ UNCHANGED hist

\* RefGenomeView.initialize -> render -> redrawDatatable: no listener is
\* registered, so the handler ends here.
RefGenomeViewRender ==
  /\ view.kind = "RefGenomeView"
  /\ view.pc = "new"
  /\ redrawDatatable(refGenomeViewOptions(modelUid))
  /\ view' = [view EXCEPT !.pc = "idle", !.current = Len(components) + 1]
  /\ UNCHANGED hist

\* RefGenomeListView.initialize -> render -> redrawDatatable, up to the
\* construction of the component
RefGenomeListViewRender ==
  /\ view.kind = "RefGenomeListView"
  /\ view.pc = "new"
  /\ redrawDatatable(refGenomeListOptions(modelUid, TRUE))
  /\ view' = [view EXCEPT !.pc = "listen", !.show_de_novo = TRUE,
                          !.current = Len(components) + 1]
  /\ UNCHANGED hist

\* this.listenTo(this.datatableComponent, 'DONE_CONTROLS_REDRAW', ...): the
\* last statement of render / redrawDatatable
ListenTo ==
  /\ view.pc = "listen"
  /\ view' = [view EXCEPT !.pc = "idle", !.listening = @ \cup {view.current}]
  /\ UNCHANGED <<components, page, gets, hist>>

\* A handler that switches the flag off instead of negating it
flipAlt(show_de_novo) == FALSE

\* this.show_de_novo = !this.show_de_novo
flip(show_de_novo) == ~show_de_novo

\* The TOGGLE_DE_NOVO handler registered by decorateControls: flip the
\* flag, then redrawDatatable
ToggleDeNovo ==
  /\ view.kind = "RefGenomeListView"
  /\ view.controls > 0
  /\ CallStackEmpty
  /\ view.redraws < MaxRedraws
  /\ redrawDatatable(refGenomeListOptions(modelUid, flip(view.show_de_novo)))
  /\ view' = [view EXCEPT !.pc = "listen", !.show_de_novo = flip(@),
                          !.current = Len(components) + 1, !.redraws = @ + 1]
  /\ hist' = [hist EXCEPT !.toggles = @ + 1]

\* The MODELS_UPDATED handler registered by decorateControls: redrawDatatable
ModelsUpdated ==
  /\ view.kind = "RefGenomeListView"
  /\ view.controls > 0
  /\ CallStackEmpty
  /\ view.redraws < MaxRedraws
  /\ redrawDatatable(refGenomeListOptions(modelUid, view.show_de_novo))
  /\ view' = [view EXCEPT !.pc = "listen",
                          !.current = Len(components) + 1, !.redraws = @ + 1]
  /\ UNCHANGED hist

TableInit ==
  /\ components = <<>>
  /\ page = NoPage
  /\ gets = <<>>
  /\ view = NoView
  /\ hist = NoHist

TableNext ==
  \/ (\E o \in CallerOptions : Construct(o)) /\ UNCHANGED <<adminVars, downloadVars>>
  \/ (\E i \in DOMAIN components, ol \in ObjLists, fc \in FieldConfigs : Update(i, ol, fc))
       /\ UNCHANGED <<adminVars, downloadVars>>
  \/ (\E g \in DOMAIN gets, r \in Responses : FetchCallback(g, r))
       /\ UNCHANGED <<adminVars, downloadVars>>
  \/ (\E g \in DOMAIN gets : TemplateCallback(g)) /\ UNCHANGED <<adminVars, downloadVars>>

ViewInit ==
  /\ components = <<>>
  /\ page = NoPage
  /\ gets = <<>>
  /\ view \in {[NoView EXCEPT !.kind = k, !.pc = "new"] : k \in ViewKinds}
  /\ hist = NoHist

ViewNext ==
  \/ SampleListViewRender /\ UNCHANGED <<adminVars, downloadVars>>
  \/ RefGenomeViewRender /\ UNCHANGED <<adminVars, downloadVars>>
  \/ RefGenomeListViewRender /\ UNCHANGED <<adminVars, downloadVars>>
  \/ ListenTo /\ UNCHANGED <<adminVars, downloadVars>>
  \/ ToggleDeNovo /\ UNCHANGED <<adminVars, downloadVars>>
  \/ ModelsUpdated /\ UNCHANGED <<adminVars, downloadVars>>
  \/ (\E g \in DOMAIN gets : FetchCallback(g, ServerData(gets[g])))
       /\ UNCHANGED <<adminVars, downloadVars>>
  \/ (\E g \in DOMAIN gets : TemplateCallback(g)) /\ UNCHANGED <<adminVars, downloadVars>>

(***************************************************************************)
(* Properties of the DataTableComponent (under SpecTable)                  *)
(***************************************************************************)
TheComponent == components[1]
HasServerTarget == TheComponent.options.serverTarget # <<>>
HasControlsTemplate == TheComponent.options.controlsTemplate # <<>>
ExtraKeys ==
  IF TheComponent.options.extraDatatableParams = <<>> THEN {}
  ELSE DOMAIN TheComponent.options.extraDatatableParams[1]
ExtraParams == TheComponent.options.extraDatatableParams[1]
OneTableWithWidget == Len(page.hook) = 1 /\ page.hook[1].widget # <<>>
GetsOfKind(kind) == {g \in DOMAIN gets : gets[g].kind = kind}

\* C3, as stated: once the fetch response has been handled, the widget has
\* obj_list.length rows and field_config.length columns, whatever
\* extraDatatableParams the caller supplied.
C3_RowsAndColsOfResponse ==
  hist.lastRenderBy = "response" =>
    /\ OneTableWithWidget
    /\ Len(ShownRows(page)) = Len(hist.lastResponse[1].obj_list)
    /\ Len(ShownCols(page)) = Len(hist.lastResponse[1].field_config)

\* C3, amended: once the fetch response has been handled, the widget has
\* obj_list.length rows unless extraDatatableParams carries aaData, and
\* field_config.length columns unless it carries aoColumns; a key it
\* carries is the one the widget gets.
C3_RowsAndColsUnlessOverridden ==
  hist.lastRenderBy = "response" =>
    /\ OneTableWithWidget
    /\ IF "aaData" \in ExtraKeys
         THEN ShownRows(page) = ExtraParams.aaData
         ELSE /\ Len(ShownRows(page)) = Len(hist.lastResponse[1].obj_list)
              /\ ShownRows(page) = TheComponent.displayableObjList
    /\ IF "aoColumns" \in ExtraKeys
         THEN ShownCols(page) = ExtraParams.aoColumns
         ELSE /\ Len(ShownCols(page)) = Len(hist.lastResponse[1].field_config)
              /\ ShownCols(page) = TheComponent.displayableFieldConfig

\* A response of two rows and two columns handled by a component that was
\* given extraDatatableParams.
C3_Witness ==
  /\ components # <<>>
  /\ hist.lastRenderBy = "response"
  /\ "sDom" \in ExtraKeys
  /\ hist.lastResponse[1].obj_list = << "r2", "r1" >>
  /\ Len(hist.lastResponse[1].field_config) = 2
  /\ Len(ShownRows(page)) = 2

\* C4, as stated: after update(newObjList, newFieldConfig) the rows shown
\* are exactly those of newObjList and the hook holds exactly one table.
C4_RowsOfLatestUpdate ==
  hist.lastRenderBy = "update" =>
    /\ OneTableWithWidget
    /\ ShownRows(page) = makeDisplayableObjectList(hist.lastUpdate[1].objList)

\* C4, amended: after update(newObjList, newFieldConfig) the hook holds
\* exactly one table, and its rows are exactly those of newObjList unless
\* extraDatatableParams carries aaData (then they are that aaData); in
\* neither case does a row of an earlier update or response remain.
C4_RowsOfLatestUpdateUnlessOverridden ==
  hist.lastRenderBy = "update" =>
    /\ OneTableWithWidget
    /\ ShownRows(page) =
         (IF "aaData" \in ExtraKeys
            THEN ExtraParams.aaData
            ELSE makeDisplayableObjectList(hist.lastUpdate[1].objList))

\* A second update, with one row, of a component whose earlier data had
\* been drawn and cleared.
C4_Witness ==
  /\ hist.lastRenderBy = "update"
  /\ hist.updates = 2
  /\ hist.lastUpdate[1].objList = << "r2" >>
  /\ page.cleared >= 2
  /\ ShownRows(page) = << DisplayableObj("r2") >>

\* C6, as stated: with a serverTarget, exactly one GET carrying requestData
\* and nothing rendered until its callback, one render per response; with
\* direct data, no network request at all and the table rendered by the
\* end of the constructor.
C6_OneGetOrNone ==
  components # <<>> =>
    IF HasServerTarget
      THEN /\ Cardinality(GetsOfKind("data")) = 1
           /\ \A g \in GetsOfKind("data") :
                /\ gets[g].data = TheComponent.options.requestData
                /\ (gets[g].pending /\ hist.updates = 0) =>
                     (page.hook = <<>> /\ page.renders = 0)
           /\ page.renders = hist.responses + hist.updates
      ELSE /\ gets = <<>>
           /\ TheComponent.datatable # <<>>
           /\ OneTableWithWidget

\* C6, amended: with a serverTarget, constructing issues exactly one GET of
\* the server target carrying requestData and nothing is rendered until its
\* callback, one render per response; with direct data, no GET of a server
\* target is ever issued and the table is rendered by the end of the
\* constructor. The only other requests are those of render for the
\* controls template, one per render when a controlsTemplate was supplied.
C6_OneDataGetOrNone ==
  components # <<>> =>
    /\ Cardinality(GetsOfKind("data")) = (IF HasServerTarget THEN 1 ELSE 0)
    /\ \A g \in GetsOfKind("data") :
         /\ gets[g].url = TheComponent.options.serverTarget[1]
         /\ gets[g].data = TheComponent.options.requestData
         /\ (gets[g].pending /\ hist.updates = 0) =>
              (page.hook = <<>> /\ page.renders = 0 /\ Len(gets) = 1)
         /\ hist.responses = (IF gets[g].pending THEN 0 ELSE 1)
    /\ page.renders = hist.responses + hist.updates
                        + (IF HasServerTarget THEN 0 ELSE 1)
    /\ ~HasServerTarget => (TheComponent.datatable # <<>> /\ OneTableWithWidget)
    /\ Cardinality(GetsOfKind("template")) =
         (IF HasControlsTemplate THEN page.renders ELSE 0)

\* A component just constructed with direct data and a controls template:
\* the table is drawn and the template request is in flight.
C6_Witness ==
  /\ components # <<>>
  /\ ~HasServerTarget
  /\ HasControlsTemplate
  /\ page.renders = 1
  /\ Len(gets) = 1
  /\ gets[1].pending
  /\ Len(ShownRows(page)) = 2

\* updateDatatable ran in this step, on a component that had (or had not)
\* a table already
UpdateDatatableRan == page'.calls # page.calls
TableExisted == components # <<>> /\ TheComponent.datatable # <<>>

\* C9, as stated: a call of updateDatatable on a component that already
\* has a table clears it and writes no new table element into the hook.
C9_NoNewTableWhenOneExists ==
  [][(UpdateDatatableRan /\ TableExisted) => page'.written = page.written]_vars

\* C9, amended: every call of updateDatatable writes a fresh table element
\* with the id '<hook id>-datatable' into the hook, in place of whatever the
\* hook held; the existing table is cleared first exactly when one exists.
C9_FreshTableOnEveryCall ==
  [][UpdateDatatableRan =>
       /\ page'.calls = page.calls + 1
       /\ page'.written = page.written + 1
       /\ Len(page'.hook) = 1
       /\ page'.hook[1].id = HookId \o "-datatable"
       /\ page'.hook[1].gen = page'.written
       /\ page'.cleared = page.cleared + (IF TableExisted THEN 1 ELSE 0)]_vars

\* Three calls on one component: three table elements written, the
\* existing table cleared before the second and the third.
C9_Witness ==
  /\ page.calls = 3
  /\ page.written = 3
  /\ page.cleared = 2
  /\ Len(page.hook) = 1

(***************************************************************************)
(* Properties of the views (under SpecView)                                *)
(***************************************************************************)
CurrentComponent == components[view.current]
DataGetsPending == \E g \in DOMAIN gets : gets[g].kind = "data" /\ gets[g].pending
Bit(b) == IF b THEN 1 ELSE 0

\* C1: in RefGenomeListView the component constructed last was given
\* show_de_novo = 1 after an even number of TOGGLE_DE_NOVO signals since
\* render and 0 after an odd number; two toggles give the value back.
C1_ShowDeNovoParity ==
  (view.kind = "RefGenomeListView" /\ view.current # 0) =>
    /\ CurrentComponent.options.requestData.show_de_novo
         = (IF hist.toggles % 2 = 0 THEN 1 ELSE 0)
    /\ CurrentComponent.options.requestData.show_de_novo = Bit(view.show_de_novo)
    /\ view.current = Len(components)

\* Two toggles handled: 1 -> 0 -> 1.
C1_Witness ==
  /\ view.kind = "RefGenomeListView"
  /\ hist.toggles = 2
  /\ view.pc = "idle"
  /\ CurrentComponent.options.requestData.show_de_novo = 1
  /\ components[view.current - 1].options.requestData.show_de_novo = 0

\* C7: while render / redrawDatatable is still to register the listener on
\* the component it constructed, no request of that component has been
\* answered; no fetch callback ran for a component the view was not yet
\* listening to, and no DONE_CONTROLS_REDRAW was emitted unheard.
C7_RenderBeforeCallback ==
  /\ view.pc = "listen" =>
       \A g \in DOMAIN gets : gets[g].comp = view.current => gets[g].pending
  /\ hist.early = 0
  /\ hist.missed = 0
  /\ \A g \in DOMAIN gets :
       (~gets[g].pending /\ view.kind \in {"SampleListView", "RefGenomeListView"})
          => gets[g].comp \in view.listening

\* The component of a redraw was answered and its DONE_CONTROLS_REDRAW was
\* heard: a second controls component exists.
C7_Witness ==
  /\ view.redraws >= 1
  /\ view.controls >= 2
  /\ view.pc = "idle"
  /\ ~DataGetsPending
  /\ \E g \in DOMAIN gets :
       gets[g].comp = view.current /\ gets[g].kind = "template" /\ ~gets[g].pending

\* C8: nothing cancels a fetch of a superseded component: once every data
\* response has been delivered, the hook shows the table of the response
\* delivered last, whichever request it answers.
C8_LastResponseWins ==
  (hist.lastDelivered # 0 /\ ~DataGetsPending) =>
    /\ Len(page.hook) = 1
    /\ ShownRows(page) =
         makeDisplayableObjectList(ServerData(gets[hist.lastDelivered]).obj_list)

\* Every response delivered, the last one that of a destroyed component:
\* the table shown was fetched with a show_de_novo other than the view's.
C8_Witness ==
  /\ view.kind = "RefGenomeListView"
  /\ hist.lastDelivered # 0
  /\ ~DataGetsPending
  /\ gets[hist.lastDelivered].comp # view.current
  /\ components[gets[hist.lastDelivered].comp].destroyed
  /\ gets[hist.lastDelivered].data.show_de_novo # Bit(view.show_de_novo)
  /\ ShownRows(page) = makeDisplayableObjectList(<< "r1" >>)
  /\ \E g \in DOMAIN gets :
       /\ gets[g].comp = view.current
       /\ gets[g].kind = "data"
       /\ ServerData(gets[g]).obj_list = << "r1", "r2" >>

InitAdmin == AdminInit /\ DownloadIdle /\ TableInit
InitDownload == DownloadInit /\ AdminIdle /\ TableInit
InitTable == TableInit /\ AdminIdle /\ DownloadIdle
InitView ==
  /\ ViewInit
  /\ AdminIdle
  /\ form = <<>>
  /\ submitted = <<>>
  /\ dlCalls = <<>>
  /\ modelUid \in Uids
  /\ globalUid = Undefined

SpecAdmin == InitAdmin /\ [][AdminNext]_vars
SpecDownload == InitDownload /\ [][DownloadNext]_vars
SpecTable == InitTable /\ [][TableNext]_vars
SpecView == InitView /\ [][ViewNext]_vars

====
